---- MODULE Spec2Model ----
(***************************************************************************)
(* FS-DKR (tmpfs/fs-dkr, src/lib.rs): the distribute / collect protocol    *)
(* that refreshes the linear shares of a (t,n) threshold ECDSA key.        *)
(*                                                                         *)
(* The cryptographic collaborators are modelled by what they compute, on   *)
(* small parameters:                                                       *)
(*   - the curve is the subgroup of prime order Q of the multiplicative    *)
(*     group modulo PrimeP, generated by GeneratorG; a point is a residue, *)
(*     point addition is multiplication modulo PrimeP and scalar           *)
(*     multiplication is exponentiation;                                   *)
(*   - Paillier is textbook Paillier with g = 1 + n over small moduli      *)
(*     n = p * q, gcd(n, (p-1)(q-1)) = 1;                                  *)
(*   - Feldman VSS commits to the coefficients of a degree-t polynomial;   *)
(*   - the fairness proof (module proof_of_fairness, not part of the       *)
(*     sources at hand) is an ideal proof: it verifies exactly for the     *)
(*     statement it was made for, and only if the witness was genuine.     *)
(***************************************************************************)
EXTENDS Integers, Sequences, FiniteSets, TLC

(***************************************************************************)
(* Bounds of the model.                                                    *)
(***************************************************************************)
\* parties per key: the keys have 0 < t < n <= MaxN
MaxN == 3
\* random tapes a sampling operation may draw from: seeds 0..MaxSeed
MaxSeed == 2
\* refresh epochs run one after the other
MaxEpoch == 3
\* messages of one epoch that the network or a cheating dealer alters
MaxTamper == 2
\* the workers the parallel stage of collect may be split among
MaxWorkers == 2

(***************************************************************************)
(* Scaled-down parameters of the primitives.                               *)
(***************************************************************************)
\* order of the scalar field (the order of secp256k1 in the program)
Q == 7
\* the group lives in the residues modulo PrimeP; Q divides PrimeP - 1
PrimeP == 29
\* generator of the subgroup of order Q
GeneratorG == 16

(***************************************************************************)
(* Integer arithmetic.                                                     *)
(***************************************************************************)
RECURSIVE ModExp(_, _, _)
ModExp(b, e, m) ==
    IF e = 0 THEN 1 % m
    ELSE LET h == ModExp(b, e \div 2, m)
         IN  IF e % 2 = 0 THEN (h * h) % m ELSE (((h * h) % m) * b) % m

RECURSIVE Gcd(_, _)
Gcd(a, b) == IF b = 0 THEN a ELSE Gcd(b, a % b)

Lcm(a, b) == (a * b) \div Gcd(a, b)

\* inverse of a modulo m (a coprime to m)
ModInv(a, m) == CHOOSE v \in 0..(m - 1) : (a * v) % m = 1 % m

RECURSIVE SeqSum(_)
SeqSum(s) == IF s = <<>> THEN 0 ELSE Head(s) + SeqSum(Tail(s))

Min(S) == CHOOSE v \in S : \A w \in S : v <= w

(***************************************************************************)
(* Scalars and points (curv: Secp256k1Scalar, Secp256k1Point).             *)
(***************************************************************************)
Scalars == 0..(Q - 1)

\* ECScalar::from(&BigInt): reduction into the scalar field
ScalarFrom(v) == v % Q

\* Scalar::to_big_int
ToBigInt(s) == s

ScalarAdd(a, b) == (a + b) % Q
ScalarSub(a, b) == (a + Q - (b % Q)) % Q
ScalarMul(a, b) == (a * b) % Q
ScalarInv(a) == ModExp(a, Q - 2, Q)

\* P * scalar
PointMul(p, s) == ModExp(p, s, PrimeP)
\* P + P'
PointAdd(p1, p2) == (p1 * p2) % PrimeP

Points == {PointMul(GeneratorG, s) : s \in Scalars}

(***************************************************************************)
(* Randomness.  Every sampling operation of the program reads a random     *)
(* tape; a tape is named by its seed, each party has its own, and the      *)
(* position of the sample on the tape selects the value.                   *)
(***************************************************************************)
Seeds == 0..MaxSeed

\* a random scalar (a polynomial coefficient)
SampleScalar(seed, i, k) == (seed * (k + 1) + i * k) % Q

\* the first unit modulo n from v on
RECURSIVE NextUnit(_, _)
NextUnit(v, n) == IF Gcd(v, n) = 1 THEN v ELSE NextUnit(v + 1, n)

\* BigInt::sample_below(n), for Paillier randomness: a unit modulo n
SampleBelow(seed, i, j, n) == NextUnit(2 + ((seed * (i + j)) % (n - 3)), n)

(***************************************************************************)
(* Paillier.                                                               *)
(***************************************************************************)
\* the primes of party i's key pair, fixed by key generation
PaillierPrimes == << <<3, 11>>, <<5, 7>>, <<3, 17>>, <<5, 13>>, <<3, 23>>, <<7, 11>> >>

DecryptionKey(i) == [p |-> PaillierPrimes[i][1], q |-> PaillierPrimes[i][2]]
EncryptionKey(i) == [n |-> PaillierPrimes[i][1] * PaillierPrimes[i][2]]

\* Paillier::encrypt_with_chosen_randomness(ek, m, r) = (1 + m n) r^n mod n^2
Encrypt(ek, m, r) ==
    LET nn == ek.n * ek.n
    IN  (((1 + (m % ek.n) * ek.n) % nn) * ModExp(r % nn, ek.n, nn)) % nn

\* Paillier::add(ek, c1, c2)
PaillierAdd(ek, c1, c2) == (c1 * c2) % (ek.n * ek.n)

\* Paillier::decrypt(dk, c)
Decrypt(dk, c) ==
    LET n == dk.p * dk.q
        nn == n * n
        lambda == Lcm(dk.p - 1, dk.q - 1)
        l == (ModExp(c % nn, lambda, nn) - 1) \div n
    IN  (l * ModInv(lambda % n, n)) % n

(***************************************************************************)
(* Feldman VSS (curv: VerifiableSS).                                       *)
(***************************************************************************)
\* value at x of the polynomial with the coefficients coef (constant first)
RECURSIVE EvalPoly(_, _)
EvalPoly(coef, x) ==
    IF coef = <<>> THEN 0
    ELSE ScalarAdd(Head(coef), ScalarMul(ScalarFrom(x), EvalPoly(Tail(coef), x)))

\* a sharing with a polynomial of degree t + 1
VssShareDegree(t, n, secret, seed, i, pos) ==
    LET coef == [k \in 1..(t + 2) |->
                    IF k = 1 THEN secret ELSE SampleScalar(seed, i, pos + k - 1)]
    IN  [vss_scheme |->
             [parameters |-> [threshold |-> t, share_count |-> n],
              commitments |-> [k \in 1..(t + 2) |-> PointMul(GeneratorG, coef[k])]],
         secret_shares |-> [j \in 1..n |-> EvalPoly(coef, j)]]

\* the sharing VerifiableSS::share makes once the polynomial is sampled:
\* coef are its t + 1 coefficients, the secret first
VssShareCoef(t, n, coef) ==
    [vss_scheme |->
         [parameters |-> [threshold |-> t, share_count |-> n],
          commitments |-> [k \in 1..Len(coef) |-> PointMul(GeneratorG, coef[k])]],
     secret_shares |-> [j \in 1..n |-> EvalPoly(coef, j)]]

\* VerifiableSS::share(t, n, secret): a random polynomial of degree t with the
\* constant term secret, the commitments to its coefficients and the n shares
VssShare(t, n, secret, seed, i, pos) ==
    VssShareCoef(t, n, [k \in 1..(t + 1) |->
                           IF k = 1 THEN secret
                           ELSE SampleScalar(seed, i, pos + k - 1)])

\* VerifiableSS::get_point_commitment(index): the committed polynomial
\* evaluated in the exponent, by Horner's rule from the last commitment down
RECURSIVE PointCommitment(_, _)
PointCommitment(commitments, index) ==
    IF Len(commitments) = 1 THEN commitments[1]
    ELSE PointAdd(commitments[1],
                  PointMul(PointCommitment(Tail(commitments), index),
                           ScalarFrom(index)))

\* VerifiableSS::validate_share_public(point, index).is_ok()
ValidateSharePublic(vss, point, index) ==
    point = PointCommitment(vss.commitments, index)

\* VerifiableSS::reconstruct(indices, shares): Lagrange interpolation at zero;
\* indices are zero-based, the share of index k is the value at k + 1
Reconstruct(indices, shares) ==
    LET m == Len(indices)
        pt(a) == ScalarFrom(indices[a] + 1)
        RECURSIVE Basis(_, _)
        Basis(a, b) ==
            IF b > m THEN 1
            ELSE IF b = a THEN Basis(a, b + 1)
            ELSE ScalarMul(ScalarMul(pt(b), ScalarInv(ScalarSub(pt(b), pt(a)))),
                           Basis(a, b + 1))
        RECURSIVE Sum(_)
        Sum(a) ==
            IF a > m THEN 0
            ELSE ScalarAdd(ScalarMul(shares[a], Basis(a, 1)), Sum(a + 1))
    IN  Sum(1)

(***************************************************************************)
(* Fairness proof: FairnessProof::prove and FairnessProof::verify.         *)
(***************************************************************************)
\* the relation the proof is about: c = Enc(ek, x, r) and Y = g^x
FairnessRelation(witness, statement) ==
    /\ statement.c = Encrypt(statement.ek, ToBigInt(witness.x), witness.r)
    /\ statement.Y = PointMul(GeneratorG, witness.x)

FairnessProve(witness, statement) ==
    [ek |-> statement.ek, c |-> statement.c, Y |-> statement.Y,
     sound |-> FairnessRelation(witness, statement)]

\* verify(statement).is_ok()
FairnessVerify(proof, statement) ==
    /\ proof.sound
    /\ proof.ek = statement.ek
    /\ proof.c = statement.c
    /\ proof.Y = statement.Y

(***************************************************************************)
(* LocalKey, as key generation leaves it (multi_party_ecdsa gg_2020).      *)
(***************************************************************************)
\* the (t, n) a key may have
Params == {tn \in (1..MaxN) \X (1..MaxN) : tn[1] < tn[2]}

\* Keygen: party k shares its additive secret u_k with a polynomial of degree
\* t; the linear share x_i of party i is the sum of the shares it received,
\* and y is the public key of the joint secret u_1 + ... + u_n
KeygenSecret(seed, k) == (seed + k) % Q

Keygen(t, n, seed) ==
    LET dealt(k) == VssShare(t, n, KeygenSecret(seed, k), seed, k, 0).secret_shares
        x(i) == ScalarFrom(SeqSum([k \in 1..n |-> dealt(k)[i]]))
        y == PointMul(GeneratorG,
                      ScalarFrom(SeqSum([k \in 1..n |-> KeygenSecret(seed, k)])))
    IN  [i \in 1..n |->
            [i |-> i, t |-> t, n |-> n,
             keys_additive |-> [u_i |-> KeygenSecret(seed, i),
                                ek |-> EncryptionKey(i),
                                dk |-> DecryptionKey(i)],
             keys_linear |-> [x_i |-> x(i), y |-> y],
             paillier_key_vec |-> [j \in 1..n |-> EncryptionKey(j)]]]

(***************************************************************************)
(* RefreshMessage::distribute                                              *)
(***************************************************************************)
\* a dealer that re-shares its linear share instead of its additive secret
DealerSecretLinear(old_key) == old_key.keys_linear.x_i

\* line 35: the secret the dealer re-shares
DealerSecret(old_key) == old_key.keys_additive.u_i

\* lines 40-81: the message the dealer builds from the sharing of its secret
distributeShared(old_key, shared, seed) ==
    LET secret_shares == shared.secret_shares
        len == Len(secret_shares)
        points_committed_vec ==
            [i \in 1..len |-> PointMul(GeneratorG, secret_shares[i])]
        randomness_vec ==
            [i \in 1..len |->
                SampleBelow(seed, old_key.i, i, old_key.paillier_key_vec[i].n)]
        points_encrypted_vec ==
            [i \in 1..len |->
                Encrypt(old_key.paillier_key_vec[i], ToBigInt(secret_shares[i]),
                        randomness_vec[i])]
        fairness_proof_vec ==
            [i \in 1..len |->
                FairnessProve([x |-> secret_shares[i], r |-> randomness_vec[i]],
                              [ek |-> old_key.paillier_key_vec[i],
                               c |-> points_encrypted_vec[i],
                               Y |-> points_committed_vec[i]])]
    IN  [fairness_proof_vec |-> fairness_proof_vec,
         coefficients_committed_vec |-> shared.vss_scheme,
         points_committed_vec |-> points_committed_vec,
         points_encrypted_vec |-> points_encrypted_vec]

\* pos: how far the dealer's tape has been read (t samples per sharing)
distribute(old_key, seed, pos) ==
    distributeShared(old_key,
                     VssShare(old_key.t, old_key.n, DealerSecret(old_key),
                              seed, old_key.i, pos),
                     seed)

(***************************************************************************)
(* RefreshMessage::collect.  Positions are one-based here: message k and   *)
(* entry i of the model are refresh_messages[k - 1] and index i - 1 of the *)
(* program.  Error records report the program's zero-based indices.        *)
(***************************************************************************)
\* a quorum test that lets exactly t messages through
QuorumMissingStrict(refresh_messages, old_key) ==
    Len(refresh_messages) < old_key.t

\* line 91: too few messages for the threshold
QuorumMissing(refresh_messages, old_key) ==
    Len(refresh_messages) <= old_key.t

\* a shape check that reports the last message of a wrong length
ShapeMismatchLast(refresh_messages) ==
    LET reference_len == Len(refresh_messages[1].fairness_proof_vec)
        bad == {k \in 1..Len(refresh_messages) :
                   ~ (/\ Len(refresh_messages[k].fairness_proof_vec) = reference_len
                      /\ Len(refresh_messages[k].points_committed_vec) = reference_len
                      /\ Len(refresh_messages[k].points_encrypted_vec) = reference_len)}
    IN  IF bad = {} THEN 0 ELSE CHOOSE k \in bad : \A l \in bad : l <= k

\* lines 98-117: the first message whose three lengths are not all equal to
\* the length of the first message's fairness_proof_vec, or 0
ShapeMismatch(refresh_messages) ==
    LET reference_len == Len(refresh_messages[1].fairness_proof_vec)
        bad == {k \in 1..Len(refresh_messages) :
                   ~ (/\ Len(refresh_messages[k].fairness_proof_vec) = reference_len
                      /\ Len(refresh_messages[k].points_committed_vec) = reference_len
                      /\ Len(refresh_messages[k].points_encrypted_vec) = reference_len)}
    IN  IF bad = {} THEN 0 ELSE Min(bad)

\* a duplicate check that compares neighbours only
DuplicatedAdjacent(refresh_messages) ==
    \E i \in 2..Len(refresh_messages) :
        refresh_messages[i] = refresh_messages[i - 1]

\* lines 119-124: some message equals a later one
Duplicated(refresh_messages) ==
    \E i \in 2..Len(refresh_messages) :
        \E j \in i..Len(refresh_messages) :
            refresh_messages[j] = refresh_messages[i - 1]

\* the parallel fold with all in place of any
InvalidSharesAll(refresh_messages) ==
    \A x \in 1..Len(refresh_messages) :
        \A y \in 1..Len(refresh_messages[1].points_committed_vec) :
            ~ ValidateSharePublic(refresh_messages[x].coefficients_committed_vec,
                                  refresh_messages[x].points_committed_vec[y], y)

\* the check applied to the first message only
InvalidSharesFirst(refresh_messages) ==
    \E y \in 1..Len(refresh_messages[1].points_committed_vec) :
        ~ ValidateSharePublic(refresh_messages[1].coefficients_committed_vec,
                              refresh_messages[1].points_committed_vec[y], y)

\* lines 126-153: some pair (message, commit index) fails validate_share_public
InvalidShares(refresh_messages) ==
    \E x \in 1..Len(refresh_messages) :
        \E y \in 1..Len(refresh_messages[1].points_committed_vec) :
            ~ ValidateSharePublic(refresh_messages[x].coefficients_committed_vec,
                                  refresh_messages[x].points_committed_vec[y], y)

\* lines 159-176: the two loops over the messages k and the parties i < n;
\* an index past the end of a vector is a panic
RECURSIVE FairnessLoop(_, _, _, _)
FairnessLoop(refresh_messages, old_key, k, i) ==
    IF k > Len(refresh_messages) THEN "ok"
    ELSE IF i > old_key.n THEN FairnessLoop(refresh_messages, old_key, k + 1, 1)
    ELSE IF \/ i > Len(old_key.paillier_key_vec)
            \/ i > Len(refresh_messages[k].points_encrypted_vec)
            \/ i > Len(refresh_messages[k].points_committed_vec)
            \/ i > Len(refresh_messages[k].fairness_proof_vec)
         THEN "panic"
    ELSE IF ~ FairnessVerify(refresh_messages[k].fairness_proof_vec[i],
                             [ek |-> old_key.paillier_key_vec[i],
                              c |-> refresh_messages[k].points_encrypted_vec[i],
                              Y |-> refresh_messages[k].points_committed_vec[i]])
         THEN "FairnessProof"
    ELSE FairnessLoop(refresh_messages, old_key, k, i + 1)

\* lines 178-199: the sum of the ciphertexts addressed to old_key.i, decrypted
RECURSIVE CipherTextSum(_, _, _)
CipherTextSum(ek, ciphertext_vec, zero) ==
    IF ciphertext_vec = <<>> THEN zero
    ELSE CipherTextSum(ek, Tail(ciphertext_vec),
                       PaillierAdd(ek, zero, Head(ciphertext_vec)))

\* an aggregation that leaves out the ciphertext of the first message
NewShareTail(refresh_messages, old_key, seed) ==
    LET ciphertext_vec ==
            [k \in 1..(Len(refresh_messages) - 1) |->
                refresh_messages[k + 1].points_encrypted_vec[old_key.i]]
        zero == Encrypt(old_key.keys_additive.ek, 0,
                        SampleBelow(seed, old_key.i, 0, old_key.keys_additive.ek.n))
        cipher_text_sum == CipherTextSum(old_key.keys_additive.ek, ciphertext_vec, zero)
        new_share == Decrypt(old_key.keys_additive.dk, cipher_text_sum)
    IN  ScalarFrom(new_share)

\* lines 178-199
NewShare(refresh_messages, old_key, seed) ==
    LET ciphertext_vec ==
            [k \in 1..Len(refresh_messages) |->
                refresh_messages[k].points_encrypted_vec[old_key.i]]
        zero == Encrypt(old_key.keys_additive.ek, 0,
                        SampleBelow(seed, old_key.i, 0, old_key.keys_additive.ek.n))
        cipher_text_sum == CipherTextSum(old_key.keys_additive.ek, ciphertext_vec, zero)
        new_share == Decrypt(old_key.keys_additive.dk, cipher_text_sum)
    IN  ScalarFrom(new_share)

\* a key update that writes the linear share and leaves y as it was
UpdateKeyShareOnly(old_key, new_share_fe) ==
    [old_key EXCEPT !.keys_linear.x_i = new_share_fe]

\* a key update that keeps the old linear share
UpdateKeyStale(old_key, new_share_fe) == old_key

\* lines 201-209
UpdateKey(old_key, new_share_fe) ==
    [old_key EXCEPT !.keys_linear.x_i = new_share_fe,
                    !.keys_linear.y = PointMul(GeneratorG, new_share_fe)]

\* lines 159-210: collect from the fairness proofs on, once the public shares
\* are found valid
collectValidated(refresh_messages, old_key, seed) ==
    IF FairnessLoop(refresh_messages, old_key, 1, 1) # "ok"
    THEN [tag |-> FairnessLoop(refresh_messages, old_key, 1, 1)]
    ELSE [tag |-> "Ok",
          key |-> UpdateKey(old_key, NewShare(refresh_messages, old_key, seed))]

\* a collect that verifies the fairness proofs before the public shares
collectFairnessFirst(refresh_messages, old_key, seed) ==
    IF QuorumMissing(refresh_messages, old_key)
    THEN [tag |-> "PartiesThresholdViolation",
          threshold |-> old_key.t,
          refreshed_keys |-> Len(refresh_messages)]
    ELSE IF ShapeMismatch(refresh_messages) # 0
    THEN LET k == ShapeMismatch(refresh_messages)
         IN  [tag |-> "SizeMismatchError",
              refresh_message_index |-> k - 1,
              fairness_proof_len |-> Len(refresh_messages[k].fairness_proof_vec),
              points_commited_len |-> Len(refresh_messages[k].points_committed_vec),
              points_encrypted_len |-> Len(refresh_messages[k].points_encrypted_vec)]
    ELSE IF Duplicated(refresh_messages)
    THEN [tag |-> "DuplicatedRefreshMessage"]
    ELSE IF FairnessLoop(refresh_messages, old_key, 1, 1) # "ok"
    THEN [tag |-> FairnessLoop(refresh_messages, old_key, 1, 1)]
    ELSE IF InvalidShares(refresh_messages)
    THEN [tag |-> "PublicShareValidationError"]
    ELSE [tag |-> "Ok",
          key |-> UpdateKey(old_key, NewShare(refresh_messages, old_key, seed))]

\* lines 85-210
collect(refresh_messages, old_key, seed) ==
    IF QuorumMissing(refresh_messages, old_key)
    THEN [tag |-> "PartiesThresholdViolation",
          threshold |-> old_key.t,
          refreshed_keys |-> Len(refresh_messages)]
    ELSE IF ShapeMismatch(refresh_messages) # 0
    THEN LET k == ShapeMismatch(refresh_messages)
         IN  [tag |-> "SizeMismatchError",
              refresh_message_index |-> k - 1,
              fairness_proof_len |-> Len(refresh_messages[k].fairness_proof_vec),
              points_commited_len |-> Len(refresh_messages[k].points_committed_vec),
              points_encrypted_len |-> Len(refresh_messages[k].points_encrypted_vec)]
    ELSE IF Duplicated(refresh_messages)
    THEN [tag |-> "DuplicatedRefreshMessage"]
    ELSE IF InvalidShares(refresh_messages)
    THEN [tag |-> "PublicShareValidationError"]
    ELSE collectValidated(refresh_messages, old_key, seed)

(***************************************************************************)
(* The ceremony, as tests::test1 drives it: every party distributes, the   *)
(* messages are broadcast, every party collects over the broadcast set.    *)
(***************************************************************************)
VARIABLES
    old_keys,       \* the parties' LocalKeys at the start of the epoch
    broadcast_vec,  \* the RefreshMessages of the epoch, as the parties get them
    new_keys,       \* what collect returned to parties 1, 2, ..., so far
    pc,             \* "distribute" or "collect": the loop test1 is in
    epoch,          \* refreshes completed, counting the current one
    rng,            \* the seed of the random tapes the parties read this epoch
    tampers,        \* alterations made to broadcast_vec in this epoch
    par_iter        \* the parallel public-share stage of the running collect

vars == <<old_keys, broadcast_vec, new_keys, pc, epoch, rng, tampers, par_iter>>

\* no collect is in its parallel stage: no worker has items, none has found
\* an invalid share, the short-circuit flag of any() is down
Idle == [workers |-> <<>>, full |-> FALSE]

N == Len(old_keys)
T == old_keys[1].t

\* lines 227-236: key generation for n parties with threshold t
Init ==
    /\ rng \in Seeds
    /\ \E tn \in Params : old_keys = Keygen(tn[1], tn[2], rng)
    /\ broadcast_vec = <<>>
    /\ new_keys = <<>>
    /\ pc = "distribute"
    /\ epoch = 1
    /\ tampers = 0
    /\ par_iter = Idle

\* lines 238-241: the next party distributes its key
DistributeStep ==
    /\ pc = "distribute"
    /\ broadcast_vec' =
          Append(broadcast_vec,
                 distribute(old_keys[Len(broadcast_vec) + 1], rng, epoch * T))
    /\ pc' = IF Len(broadcast_vec) + 1 = N THEN "collect" ELSE "distribute"
    /\ UNCHANGED <<old_keys, new_keys, epoch, rng, tampers, par_iter>>

\* lines 242-245: the next party collects over the broadcast set; test1
\* unwraps every result, so the loop ends with the first error
CollectStep ==
    /\ pc = "collect"
    /\ Len(new_keys) < N
    /\ \A i \in 1..Len(new_keys) : new_keys[i].tag = "Ok"
    /\ par_iter = Idle
    /\ new_keys' =
          Append(new_keys,
                 collect(broadcast_vec, old_keys[Len(new_keys) + 1], rng))
    /\ UNCHANGED <<old_keys, broadcast_vec, pc, epoch, rng, tampers, par_iter>>

AllCollected ==
    /\ Len(new_keys) = N
    /\ \A i \in 1..N : new_keys[i].tag = "Ok"

\* the refreshed keys are the keys of the next epoch, and the parties seed
\* their generators anew
NextEpoch ==
    /\ pc = "collect"
    /\ AllCollected
    /\ epoch < MaxEpoch
    /\ old_keys' = [i \in 1..N |-> new_keys[i].key]
    /\ broadcast_vec' = <<>>
    /\ new_keys' = <<>>
    /\ pc' = "distribute"
    /\ epoch' = epoch + 1
    /\ rng' \in Seeds
    /\ tampers' = 0
    /\ UNCHANGED par_iter

Next == DistributeStep \/ CollectStep \/ NextEpoch

Spec == Init /\ [][Next]_vars

(***************************************************************************)
(* What the parties receive need not be what honest dealers sent: between  *)
(* the distribute loop and the first collect, the network or a cheating    *)
(* dealer may alter the broadcast set, at most MaxTamper times per epoch.  *)
(***************************************************************************)
MayTamper ==
    /\ pc = "collect"
    /\ new_keys = <<>>
    /\ par_iter = Idle
    /\ tampers < MaxTamper

Tampered(vec) ==
    /\ broadcast_vec' = vec
    /\ tampers' = tampers + 1
    /\ UNCHANGED <<old_keys, new_keys, pc, epoch, rng, par_iter>>

RemoveAt(s, k) == SubSeq(s, 1, k - 1) \o SubSeq(s, k + 1, Len(s))
DropLast(s) == SubSeq(s, 1, Len(s) - 1)

\* message k is not delivered
DropMessage ==
    /\ MayTamper
    /\ \E k \in 1..Len(broadcast_vec) : Tampered(RemoveAt(broadcast_vec, k))

\* message k is delivered a second time
ReplayMessage ==
    /\ MayTamper
    /\ \E k \in 1..Len(broadcast_vec) :
          Tampered(Append(broadcast_vec, broadcast_vec[k]))

\* one of the three vectors of message k loses its last entry
TruncateField ==
    /\ MayTamper
    /\ \E k \in 1..Len(broadcast_vec) :
          LET m == broadcast_vec[k]
          IN  \/ /\ m.fairness_proof_vec # <<>>
                 /\ Tampered([broadcast_vec EXCEPT ![k].fairness_proof_vec =
                                 DropLast(m.fairness_proof_vec)])
              \/ /\ m.points_committed_vec # <<>>
                 /\ Tampered([broadcast_vec EXCEPT ![k].points_committed_vec =
                                 DropLast(m.points_committed_vec)])
              \/ /\ m.points_encrypted_vec # <<>>
                 /\ Tampered([broadcast_vec EXCEPT ![k].points_encrypted_vec =
                                 DropLast(m.points_encrypted_vec)])

\* message k is made for one party fewer: each vector loses its last entry
ShortenMessage ==
    /\ MayTamper
    /\ \E k \in 1..Len(broadcast_vec) :
          LET m == broadcast_vec[k]
          IN  /\ m.fairness_proof_vec # <<>>
              /\ m.points_committed_vec # <<>>
              /\ m.points_encrypted_vec # <<>>
              /\ Tampered([broadcast_vec EXCEPT ![k] =
                     [m EXCEPT !.fairness_proof_vec = DropLast(@),
                               !.points_committed_vec = DropLast(@),
                               !.points_encrypted_vec = DropLast(@)]])

\* message k is made for one party more: the point of the next index on the
\* committed polynomial, with a ciphertext and a proof that no registered
\* key backs
LengthenMessage ==
    /\ MayTamper
    /\ \E k \in 1..Len(broadcast_vec) :
          LET m == broadcast_vec[k]
              ek == old_keys[1].paillier_key_vec[1]
              Y == PointCommitment(m.coefficients_committed_vec.commitments,
                                   Len(m.points_committed_vec) + 1)
              c == Encrypt(ek, 0, 1)
              proof == FairnessProve([x |-> 0, r |-> 1], [ek |-> ek, c |-> c, Y |-> Y])
          IN  Tampered([broadcast_vec EXCEPT ![k] =
                  [m EXCEPT !.fairness_proof_vec = Append(@, proof),
                            !.points_committed_vec = Append(@, Y),
                            !.points_encrypted_vec = Append(@, c)]])

\* entry j of the committed points of message k is replaced by another point
TamperPoint ==
    /\ MayTamper
    /\ \E k \in 1..Len(broadcast_vec) :
          \E j \in 1..Len(broadcast_vec[k].points_committed_vec) :
              Tampered([broadcast_vec EXCEPT ![k].points_committed_vec[j] =
                           PointAdd(@, GeneratorG)])

\* entry j of the encrypted shares of message k is replaced by a ciphertext
\* of another plaintext
TamperCipher ==
    /\ MayTamper
    /\ \E k \in 1..Len(broadcast_vec) :
          \E j \in 1..Len(broadcast_vec[k].points_encrypted_vec) :
              LET ek == old_keys[1].paillier_key_vec[IF j <= N THEN j ELSE 1]
              IN  Tampered([broadcast_vec EXCEPT ![k].points_encrypted_vec[j] =
                               PaillierAdd(ek, @, Encrypt(ek, 1, 1))])

\* the parties collect over a quorum of the honest messages
NextQuorum == DistributeStep \/ DropMessage \/ CollectStep \/ NextEpoch

SpecQuorum == Init /\ [][NextQuorum]_vars

\* the parties collect over whatever the network hands them
NextCollect ==
    \/ DistributeStep
    \/ DropMessage
    \/ ReplayMessage
    \/ TruncateField
    \/ ShortenMessage
    \/ LengthenMessage
    \/ TamperPoint
    \/ TamperCipher
    \/ CollectStep

SpecCollect == Init /\ [][NextCollect]_vars

(***************************************************************************)
(* The parallel stage of collect, lines 126-157, worker by worker.  The    *)
(* pairs (message, commit index) are split into contiguous runs, one per   *)
(* worker; a worker validates its pairs in order, raises the short-circuit *)
(* flag of any() when one fails, and may give up its remaining pairs at    *)
(* any moment once the flag is up.                                         *)
(***************************************************************************)
\* lines 127-138: the pairs, message by message
ParallelIndexes(refresh_messages) ==
    LET rows == Len(refresh_messages)
        cols == Len(refresh_messages[1].points_committed_vec)
    IN  [a \in 1..(rows * cols) |->
            <<((a - 1) \div cols) + 1, ((a - 1) % cols) + 1>>]

\* the places where a sequence of len items may be cut for the workers
Splits(len) == {S \in SUBSET (1..(len - 1)) : Cardinality(S) < MaxWorkers}

\* the runs of items between the cuts S
Chunks(items, S) ==
    [w \in 1..(Cardinality(S) + 1) |->
        LET own == {a \in 1..Len(items) : Cardinality({c \in S : c < a}) = w - 1}
        IN  IF own = {} THEN <<>>
            ELSE SubSeq(items, Min(own), Min(own) + Cardinality(own) - 1)]

\* lines 143-152: the closure of any(), applied to one pair
PairInvalid(refresh_messages, pair) ==
    ~ ValidateSharePublic(refresh_messages[pair[1]].coefficients_committed_vec,
                          refresh_messages[pair[1]].points_committed_vec[pair[2]],
                          pair[2])

\* a verdict that listens to the first worker only
AnyFoundFirst(workers) == workers[1].found

\* lines 141-142: the verdict of any() once the workers are done
AnyFound(workers) == \E w \in DOMAIN workers : workers[w].found

\* the next party's collect has passed the quorum, shape and duplicate checks
\* and hands its pairs to the workers
ParStart ==
    /\ pc = "collect"
    /\ Len(new_keys) < N
    /\ \A i \in 1..Len(new_keys) : new_keys[i].tag = "Ok"
    /\ par_iter = Idle
    /\ ~ QuorumMissing(broadcast_vec, old_keys[Len(new_keys) + 1])
    /\ ShapeMismatch(broadcast_vec) = 0
    /\ ~ Duplicated(broadcast_vec)
    /\ LET parallel_indexes == ParallelIndexes(broadcast_vec)
       IN  \E S \in Splits(Len(parallel_indexes)) :
               par_iter' =
                   [workers |-> [w \in 1..(Cardinality(S) + 1) |->
                                    [items |-> Chunks(parallel_indexes, S)[w],
                                     found |-> FALSE]],
                    full |-> FALSE]
    /\ UNCHANGED <<old_keys, broadcast_vec, new_keys, pc, epoch, rng, tampers>>

\* worker w validates its next pair
ParEval(w) ==
    /\ w \in DOMAIN par_iter.workers
    /\ par_iter.workers[w].items # <<>>
    /\ LET invalid == PairInvalid(broadcast_vec, Head(par_iter.workers[w].items))
       IN  par_iter' =
               [par_iter EXCEPT
                   !.workers[w] = [items |-> IF invalid THEN <<>> ELSE Tail(@.items),
                                   found |-> invalid],
                   !.full = @ \/ invalid]
    /\ UNCHANGED <<old_keys, broadcast_vec, new_keys, pc, epoch, rng, tampers>>

\* worker w sees the flag up and gives up its remaining pairs
ParStop(w) ==
    /\ w \in DOMAIN par_iter.workers
    /\ par_iter.workers[w].items # <<>>
    /\ par_iter.full
    /\ par_iter' = [par_iter EXCEPT !.workers[w].items = <<>>]
    /\ UNCHANGED <<old_keys, broadcast_vec, new_keys, pc, epoch, rng, tampers>>

\* lines 155-210: the workers are done; collect returns the error or goes on
ParJoin ==
    /\ par_iter # Idle
    /\ \A w \in DOMAIN par_iter.workers : par_iter.workers[w].items = <<>>
    /\ new_keys' =
          Append(new_keys,
                 IF AnyFound(par_iter.workers)
                 THEN [tag |-> "PublicShareValidationError"]
                 ELSE collectValidated(broadcast_vec,
                                       old_keys[Len(new_keys) + 1], rng))
    /\ par_iter' = Idle
    /\ UNCHANGED <<old_keys, broadcast_vec, pc, epoch, rng, tampers>>

\* the commitment of message k to the leading coefficient is replaced, which
\* moves every point the commitment implies
TamperCommitment ==
    /\ MayTamper
    /\ \E k \in 1..Len(broadcast_vec) :
          Tampered([broadcast_vec EXCEPT
                       ![k].coefficients_committed_vec.commitments[T + 1] =
                           PointAdd(@, GeneratorG)])

\* collect's parallel stage over the honest messages, or with one alteration
NextParallel ==
    \/ DistributeStep
    \/ (tampers = 0 /\ TamperPoint)
    \/ (tampers = 0 /\ TamperCommitment)
    \/ ParStart
    \/ \E w \in 1..MaxWorkers : ParEval(w)
    \/ \E w \in 1..MaxWorkers : ParStop(w)
    \/ ParJoin

\* the stage reads no randomness: one seed for the ceremony
InitParallel == Init /\ rng = 0

SpecParallel == InitParallel /\ [][NextParallel]_vars

(***************************************************************************)
(* Properties.                                                             *)
(***************************************************************************)
\* the zero-based indices of a set, in increasing order
RECURSIVE SortedSeq(_)
SortedSeq(S) == IF S = {} THEN <<>> ELSE <<Min(S)>> \o SortedSeq(S \ {Min(S)})

\* the sets of size t + 1 of zero-based indices of parties that have collected
Quorums == {S \in SUBSET (0..(Len(new_keys) - 1)) : Cardinality(S) = T + 1}

OldSecret(S) ==
    LET indices == SortedSeq(S)
    IN  Reconstruct(indices,
            [a \in 1..Len(indices) |-> old_keys[indices[a] + 1].keys_linear.x_i])

NewSecret(S) ==
    LET indices == SortedSeq(S)
    IN  Reconstruct(indices,
            [a \in 1..Len(indices) |-> new_keys[indices[a] + 1].key.keys_linear.x_i])

Collected == 1..Len(new_keys)

\* C1: in every epoch of a ceremony in which all n parties distribute and all
\* collect over the n messages, every collect succeeds, and any t + 1 of the
\* new linear shares reconstruct the secret that the old linear shares at the
\* same indices reconstruct.
C1_RefreshKeepsSecret ==
    /\ \A i \in Collected : new_keys[i].tag = "Ok"
    /\ \A S \in Quorums : NewSecret(S) = OldSecret(S)

C1_Witness ==
    /\ epoch = MaxEpoch
    /\ AllCollected
    /\ Len(broadcast_vec) = N
    /\ \E i \in 1..N : new_keys[i].key.keys_linear.x_i # old_keys[i].keys_linear.x_i

\* C2: whenever every party's collect succeeds over one common set of more
\* than t distinct honest messages (possibly fewer than n), any t + 1 of the
\* new linear shares reconstruct the secret that the old linear shares at the
\* same indices reconstruct.
C2_QuorumKeepsSecret ==
    AllCollected => \A S \in Quorums : NewSecret(S) = OldSecret(S)

\* C3: collect over at most t messages, whatever they contain, returns the
\* threshold-violation error with the key's threshold and the message count.
C3_QuorumEnforced ==
    \A i \in Collected :
        Len(broadcast_vec) <= T =>
            new_keys[i] = [tag |-> "PartiesThresholdViolation",
                           threshold |-> T,
                           refreshed_keys |-> Len(broadcast_vec)]

C3_Witness ==
    /\ broadcast_vec = <<>>
    /\ new_keys # <<>>
    /\ new_keys[1].tag = "PartiesThresholdViolation"

\* the three lengths of a message
Lens(m) ==
    {Len(m.fairness_proof_vec), Len(m.points_committed_vec), Len(m.points_encrypted_vec)}

WrongLength(m) == Lens(m) # {N}

\* C4: over more than t messages, if some message has vectors of mismatched
\* lengths or of a length other than n, collect returns the size-mismatch
\* error and reports the index of a message that has such a length.
C4_ShapeEnforced ==
    \A i \in Collected :
        (/\ Len(broadcast_vec) > T
         /\ \E k \in 1..Len(broadcast_vec) : WrongLength(broadcast_vec[k]))
        => /\ new_keys[i].tag = "SizeMismatchError"
           /\ new_keys[i].refresh_message_index + 1 \in 1..Len(broadcast_vec)
           /\ WrongLength(broadcast_vec[new_keys[i].refresh_message_index + 1])

\* the input passes the quorum, shape and duplicate stages
WellShaped ==
    /\ Len(broadcast_vec) > T
    /\ \A k \in 1..Len(broadcast_vec) : Lens(broadcast_vec[k]) = Lens(broadcast_vec[1])
    /\ Cardinality(Lens(broadcast_vec[1])) = 1
    /\ \A a, b \in 1..Len(broadcast_vec) : a # b => broadcast_vec[a] # broadcast_vec[b]

\* the point the commitment of message m implies for entry j
ImpliedPoint(m, j) == PointCommitment(m.coefficients_committed_vec.commitments, j)

\* entry j of m is as an honest dealer made it, but for the committed point
PointReplaced(m, j) ==
    /\ j <= N
    /\ m.fairness_proof_vec[j].sound
    /\ m.fairness_proof_vec[j].ek = old_keys[1].paillier_key_vec[j]
    /\ m.fairness_proof_vec[j].c = m.points_encrypted_vec[j]
    /\ m.fairness_proof_vec[j].Y = ImpliedPoint(m, j)
    /\ m.points_committed_vec[j] # m.fairness_proof_vec[j].Y

SomePointReplaced ==
    /\ WellShaped
    /\ \E k \in 1..Len(broadcast_vec) :
          \E j \in 1..Len(broadcast_vec[k].points_committed_vec) :
              PointReplaced(broadcast_vec[k], j)

\* C5, as claimed: a message whose committed point j was replaced while its
\* ciphertext j was left alone, in a well-shaped input, makes collect return
\* the fairness-proof error.
C5_ReplacedPointFailsFairness ==
    \A i \in Collected : SomePointReplaced => new_keys[i].tag = "FairnessProof"

\* C5, amended: such a message makes collect fail with the public-share
\* validation error, since the replaced point no longer lies on the message's
\* own committed polynomial and that stage runs before the fairness proofs.
C5_ReplacedPointFailsPublicShare ==
    \A i \in Collected :
        SomePointReplaced => new_keys[i].tag = "PublicShareValidationError"

C5_Witness ==
    /\ SomePointReplaced
    /\ new_keys # <<>>
    /\ new_keys[1].tag = "PublicShareValidationError"

OffPolynomial(k, j) ==
    broadcast_vec[k].points_committed_vec[j] # ImpliedPoint(broadcast_vec[k], j)

\* C6: in a well-shaped input, a committed point of any message at any index
\* that is not the point its own commitment implies for index + 1 makes
\* collect return the public-share validation error.
C6_PublicShareSound ==
    \A i \in Collected :
        (/\ WellShaped
         /\ \E k \in 1..Len(broadcast_vec) :
               \E j \in 1..Len(broadcast_vec[k].points_committed_vec) :
                   OffPolynomial(k, j))
        => new_keys[i].tag = "PublicShareValidationError"

C6_Witness ==
    /\ WellShaped
    /\ \E k \in 2..Len(broadcast_vec) :
          \E j \in 2..Len(broadcast_vec[k].points_committed_vec) :
              /\ OffPolynomial(k, j)
              /\ \A a \in 1..Len(broadcast_vec) :
                    \A b \in 1..Len(broadcast_vec[a].points_committed_vec) :
                        OffPolynomial(a, b) => a = k /\ b = j
    /\ new_keys # <<>>
    /\ new_keys[1].tag = "PublicShareValidationError"

SameLengths ==
    /\ Len(broadcast_vec) > T
    /\ \A k \in 1..Len(broadcast_vec) : Lens(broadcast_vec[k]) = Lens(broadcast_vec[1])
    /\ Cardinality(Lens(broadcast_vec[1])) = 1

\* C7: over more than t messages of consistent shape, collect returns the
\* duplicate-message error exactly when two messages at positions i < j,
\* adjacent or not, are identical.
C7_DuplicateExact ==
    \A i \in Collected :
        SameLengths =>
            (new_keys[i].tag = "DuplicatedRefreshMessage"
             <=> \E a, b \in 1..Len(broadcast_vec) :
                    a < b /\ broadcast_vec[a] = broadcast_vec[b])

C7_Witness ==
    /\ SameLengths
    /\ \E a, b \in 1..Len(broadcast_vec) : a + 1 < b /\ broadcast_vec[a] = broadcast_vec[b]
    /\ \A a \in 2..Len(broadcast_vec) : broadcast_vec[a] # broadcast_vec[a - 1]
    /\ new_keys # <<>>
    /\ new_keys[1].tag = "DuplicatedRefreshMessage"

Outcomes ==
    {"Ok", "PartiesThresholdViolation", "SizeMismatchError",
     "DuplicatedRefreshMessage", "PublicShareValidationError", "FairnessProof"}

\* C8: collect ends with a refreshed key or one of the five typed errors,
\* never in any other way.
C8_TypedOutcome == \A i \in Collected : new_keys[i].tag \in Outcomes

\* entry j of message m passed both checks for the key of party i
PairVerified(m, j, key) ==
    /\ j <= Len(m.points_committed_vec)
    /\ j <= Len(m.points_encrypted_vec)
    /\ j <= Len(m.fairness_proof_vec)
    /\ j <= Len(key.paillier_key_vec)
    /\ ValidateSharePublic(m.coefficients_committed_vec, m.points_committed_vec[j], j)
    /\ FairnessVerify(m.fairness_proof_vec[j],
                      [ek |-> key.paillier_key_vec[j],
                       c |-> m.points_encrypted_vec[j],
                       Y |-> m.points_committed_vec[j]])

MaxOf(S) == CHOOSE v \in S : \A w \in S : w <= v

\* C9: collect returns a key only if every (message, index) pair of the input
\* passed the public-share check and the fairness-proof verification.
C9_EveryPairVerified ==
    \A i \in Collected :
        new_keys[i].tag = "Ok" =>
            \A k \in 1..Len(broadcast_vec) :
                \A j \in 1..MaxOf(Lens(broadcast_vec[k])) :
                    PairVerified(broadcast_vec[k], j, old_keys[i])

\* C10: the key a successful collect returns no longer holds the additive
\* secret the party re-shared in distribute.
C10_AdditiveSecretErased ==
    \A i \in Collected :
        new_keys[i].tag = "Ok" =>
            new_keys[i].key.keys_additive.u_i # old_keys[i].keys_additive.u_i

(***************************************************************************)
(* The messages distribute produces                                        *)
(***************************************************************************)
\* the lengths of the four sequences a message carries
FourLens(m) ==
    Lens(m) \cup {Len(m.coefficients_committed_vec.commitments)}

\* C11, as claimed: in every message distribute produces, the fairness
\* proofs, the coefficient commitments, the committed points and the
\* encrypted shares all have length n.
C11_FourSequencesLengthN ==
    \A k \in 1..Len(broadcast_vec) : FourLens(broadcast_vec[k]) = {N}

\* C11, amended: in every message distribute produces, the fairness proofs,
\* the committed points and the encrypted shares have length n, and the
\* commitment to the polynomial has t + 1 entries, one per coefficient.
C11_MessageShape ==
    \A k \in 1..Len(broadcast_vec) :
        /\ Lens(broadcast_vec[k]) = {N}
        /\ Len(broadcast_vec[k].coefficients_committed_vec.commitments) = T + 1
        /\ broadcast_vec[k].coefficients_committed_vec.parameters
               = [threshold |-> T, share_count |-> N]

\* every party of a key with t + 1 < n has distributed
C11_Witness ==
    /\ T + 1 < N
    /\ Len(broadcast_vec) = N
    /\ \A k \in 1..N :
           broadcast_vec[k] = distribute(old_keys[k], rng, epoch * T)

(***************************************************************************)
(* Rerandomisation.  The coefficients VerifiableSS::share samples are      *)
(* uniform over the scalar field, so the probability of an event over the  *)
(* dealer's sampling is the fraction of coefficient vectors giving it.     *)
(***************************************************************************)
\* the coefficient vectors a dealer of a degree-t polynomial may sample
FreshCoefs == [1..T -> Scalars]

\* what collect returns to party i when dealer 1 has sampled coefs and the
\* other dealers' messages are the ones broadcast
RefreshWith(i, coefs) ==
    LET shared == VssShareCoef(T, N, <<DealerSecret(old_keys[1])>> \o coefs)
        message == distributeShared(old_keys[1], shared, rng)
    IN  collect([broadcast_vec EXCEPT ![1] = message], old_keys[i], rng)

\* the outcome of party i's collect for each sampling of dealer 1
Refreshed(i) == [coefs \in FreshCoefs |-> RefreshWith(i, coefs)]

\* the samplings, among the outcomes r of party i, that leave its linear
\* share as it was
Unchanged(r, i) ==
    {coefs \in DOMAIN r :
        /\ r[coefs].tag = "Ok"
        /\ r[coefs].key.keys_linear.x_i = old_keys[i].keys_linear.x_i}

\* all n messages of the first refresh are in and nobody has collected yet
ReadyToCollect ==
    /\ pc = "collect"
    /\ new_keys = <<>>
    /\ Len(broadcast_vec) = N
    /\ epoch = 1

\* C12: whatever the other dealers sent, every sampling of one dealer's
\* polynomial gives a successful refresh, and for every party exactly one
\* sampling in Q (the order of the scalar field) leaves its linear share
\* unchanged: the new share differs from the old one with probability 1 - 1/Q.
C12_ShareRerandomised ==
    ReadyToCollect =>
        \A i \in 1..N :
            LET r == Refreshed(i)
            IN  /\ \A coefs \in FreshCoefs : r[coefs].tag = "Ok"
                /\ Cardinality(Unchanged(r, i)) * Q = Cardinality(FreshCoefs)

\* a refresh of a key with t >= 2 where some samplings change the share of a
\* party and some do not
C12_Witness ==
    /\ ReadyToCollect
    /\ T >= 2
    /\ \E i \in 1..N :
           LET r == Refreshed(i)
           IN  Unchanged(r, i) # {} /\ Unchanged(r, i) # FreshCoefs

(***************************************************************************)
(* The order of the validation stages                                      *)
(***************************************************************************)
\* the stages, in the order claimed, and the error of each
StageError ==
    <<"PartiesThresholdViolation", "SizeMismatchError",
      "DuplicatedRefreshMessage", "PublicShareValidationError", "FairnessProof">>

\* what each stage rejects, stated for any list of messages
ViolatesQuorum(msgs, key) == Len(msgs) <= key.t

ViolatesShape(msgs) ==
    /\ msgs # <<>>
    /\ \E k \in 1..Len(msgs) : Lens(msgs[k]) # {Len(msgs[1].fairness_proof_vec)}

ViolatesDuplicate(msgs) ==
    \E a \in 1..Len(msgs) : \E b \in (a + 1)..Len(msgs) : msgs[a] = msgs[b]

ViolatesPublicShare(msgs) ==
    \E k \in 1..Len(msgs) :
        \E j \in 1..Len(msgs[k].points_committed_vec) :
            ~ ValidateSharePublic(msgs[k].coefficients_committed_vec,
                                  msgs[k].points_committed_vec[j], j)

\* some entry a message carries for a party of the key fails verification
ViolatesFairness(msgs, key) ==
    \E k \in 1..Len(msgs) :
        \E j \in 1..key.n :
            /\ j <= Len(msgs[k].fairness_proof_vec)
            /\ j <= Len(msgs[k].points_encrypted_vec)
            /\ j <= Len(msgs[k].points_committed_vec)
            /\ ~ FairnessVerify(msgs[k].fairness_proof_vec[j],
                                [ek |-> key.paillier_key_vec[j],
                                 c |-> msgs[k].points_encrypted_vec[j],
                                 Y |-> msgs[k].points_committed_vec[j]])

\* the stages the input of party i's collect violates
ViolatedStages(i) ==
    (IF ViolatesQuorum(broadcast_vec, old_keys[i]) THEN {1} ELSE {})
    \cup (IF ViolatesShape(broadcast_vec) THEN {2} ELSE {})
    \cup (IF ViolatesDuplicate(broadcast_vec) THEN {3} ELSE {})
    \cup (IF ViolatesPublicShare(broadcast_vec) THEN {4} ELSE {})
    \cup (IF ViolatesFairness(broadcast_vec, old_keys[i]) THEN {5} ELSE {})

\* the earliest stage the input of party i's collect violates, or 0
EarliestViolated(i) ==
    IF ViolatesQuorum(broadcast_vec, old_keys[i]) THEN 1
    ELSE IF ViolatesShape(broadcast_vec) THEN 2
    ELSE IF ViolatesDuplicate(broadcast_vec) THEN 3
    ELSE IF ViolatesPublicShare(broadcast_vec) THEN 4
    ELSE IF ViolatesFairness(broadcast_vec, old_keys[i]) THEN 5
    ELSE 0

\* C13: when the input violates one of the first four stages, as every input
\* that violates several stages at once does, collect returns the error of
\* the earliest violated stage in the order quorum, shape, duplicate, public
\* share, fairness proof; and whenever collect returns one of the five
\* errors, it is the error of the earliest stage the input violates, never
\* that of a later one.
C13_EarliestStageReported ==
    \A i \in Collected :
        LET e == EarliestViolated(i)
        IN  /\ e \in 1..4 => new_keys[i].tag = StageError[e]
            /\ new_keys[i].tag \in {StageError[s] : s \in 1..5} =>
                   e # 0 /\ new_keys[i].tag = StageError[e]

\* a collect over messages that fail the public-share stage and the
\* fairness stage at once has returned the error of the earlier one
C13_Witness ==
    \E i \in Collected :
        /\ {4, 5} \subseteq ViolatedStages(i)
        /\ EarliestViolated(i) = 4
        /\ new_keys[i].tag = "PublicShareValidationError"

(***************************************************************************)
(* The shape check                                                         *)
(***************************************************************************)
\* the messages, by zero-based index, with a vector whose length is not that
\* of the first message's fairness_proof_vec
Misshapen ==
    {k \in 0..(Len(broadcast_vec) - 1) :
        \/ Len(broadcast_vec[k + 1].fairness_proof_vec)
               # Len(broadcast_vec[1].fairness_proof_vec)
        \/ Len(broadcast_vec[k + 1].points_committed_vec)
               # Len(broadcast_vec[1].fairness_proof_vec)
        \/ Len(broadcast_vec[k + 1].points_encrypted_vec)
               # Len(broadcast_vec[1].fairness_proof_vec)}

\* C14: once the quorum check has passed, collect returns the size-mismatch
\* error exactly when some message has fairness proofs, committed points or
\* encrypted shares of a length other than L, the length of the first
\* message's fairness proofs; the error carries the smallest index of such a
\* message and the three lengths of that message.
C14_ShapeCheckExact ==
    \A i \in Collected :
        new_keys[i].tag # "PartiesThresholdViolation" =>
            /\ new_keys[i].tag = "SizeMismatchError" <=> Misshapen # {}
            /\ new_keys[i].tag = "SizeMismatchError" =>
                   LET k == new_keys[i].refresh_message_index
                   IN  /\ k \in Misshapen
                       /\ \A l \in Misshapen : k <= l
                       /\ new_keys[i].fairness_proof_len
                              = Len(broadcast_vec[k + 1].fairness_proof_vec)
                       /\ new_keys[i].points_commited_len
                              = Len(broadcast_vec[k + 1].points_committed_vec)
                       /\ new_keys[i].points_encrypted_len
                              = Len(broadcast_vec[k + 1].points_encrypted_vec)

\* two messages have a wrong length, neither is the first, and collect has
\* reported the earlier one, whose three lengths are not all the same
C14_Witness ==
    \E i \in Collected :
        /\ new_keys[i].tag = "SizeMismatchError"
        /\ Cardinality(Misshapen) >= 2
        /\ new_keys[i].refresh_message_index >= 1
        /\ Cardinality({new_keys[i].fairness_proof_len,
                        new_keys[i].points_commited_len,
                        new_keys[i].points_encrypted_len}) >= 2

(***************************************************************************)
(* Homomorphic aggregation                                                 *)
(***************************************************************************)
\* the plaintext of the ciphertext message k addresses to party i
PlainShare(k, i) ==
    Decrypt(old_keys[i].keys_additive.dk,
            broadcast_vec[k].points_encrypted_vec[old_keys[i].i])

\* the integer sum of the plaintexts addressed to party i, one per message
PlainSum(i) == SeqSum([k \in 1..Len(broadcast_vec) |-> PlainShare(k, i)])

\* C15: when collect succeeds and the integer sum of the plaintext shares
\* that the messages address to the collecting party is below its Paillier
\* modulus, the party's new linear share is that sum reduced into the scalar
\* field: one ciphertext of every message, the one at the party's own
\* position, and nothing else.
C15_ShareIsSumOfOwnPlaintexts ==
    \A i \in Collected :
        (/\ new_keys[i].tag = "Ok"
         /\ PlainSum(i) < old_keys[i].keys_additive.ek.n) =>
            new_keys[i].key.keys_linear.x_i = ScalarFrom(PlainSum(i))

\* a successful collect over fewer than n messages whose plaintexts sum to
\* more than the order of the scalar field, yet less than the modulus
C15_Witness ==
    \E i \in Collected :
        /\ new_keys[i].tag = "Ok"
        /\ i >= 2
        /\ Len(broadcast_vec) < N
        /\ PlainSum(i) >= Q
        /\ PlainSum(i) < old_keys[i].keys_additive.ek.n
        /\ \A k \in 1..Len(broadcast_vec) : PlainShare(k, i) > 0

(***************************************************************************)
(* What a successful collect changes in the key                            *)
(***************************************************************************)
\* C16: the key a successful collect returns has the newly derived share as
\* its linear share and the generator raised to that share as its public
\* share; its party index, t, n, registry of Paillier public keys and the
\* party's own Paillier key pair (and every other field) are those of the
\* input key.
C16_OnlyLinearKeysChange ==
    \A i \in Collected :
        new_keys[i].tag = "Ok" =>
            LET key == new_keys[i].key
                new_share_fe == NewShare(broadcast_vec, old_keys[i], rng)
            IN  /\ key.keys_linear = [x_i |-> new_share_fe,
                                      y |-> PointMul(GeneratorG, new_share_fe)]
                /\ key.i = old_keys[i].i
                /\ key.t = old_keys[i].t
                /\ key.n = old_keys[i].n
                /\ key.paillier_key_vec = old_keys[i].paillier_key_vec
                /\ key.keys_additive.ek = old_keys[i].keys_additive.ek
                /\ key.keys_additive.dk = old_keys[i].keys_additive.dk
                /\ [key EXCEPT !.keys_linear = old_keys[i].keys_linear] = old_keys[i]

\* a successful collect that changed both the linear share and the public
\* share of the key
C16_Witness ==
    \E i \in Collected :
        /\ new_keys[i].tag = "Ok"
        /\ new_keys[i].key.keys_linear.x_i # old_keys[i].keys_linear.x_i
        /\ new_keys[i].key.keys_linear.y # old_keys[i].keys_linear.y
        /\ new_keys[i].key.keys_linear.y
               # PointMul(GeneratorG, old_keys[i].keys_linear.x_i)

(***************************************************************************)
(* The parallel public-share stage                                         *)
(***************************************************************************)
\* some worker has found an invalid pair
SomeWorkerFound == \E w \in DOMAIN par_iter.workers : par_iter.workers[w].found

\* the verdict of the stage is right at every moment, however the pairs were
\* split, whatever the workers' order and wherever they gave up: the flag is
\* up exactly when a worker has found an invalid pair, a worker finds one
\* only if there is one, workers that finish with the flag down have left no
\* invalid pair, and collect returns the public-share error exactly when
\* some pair is invalid
VerdictRight ==
    /\ par_iter.full <=> SomeWorkerFound
    /\ SomeWorkerFound => ViolatesPublicShare(broadcast_vec)
    /\ (/\ par_iter # Idle
        /\ ~ par_iter.full
        /\ \A w \in DOMAIN par_iter.workers : par_iter.workers[w].items = <<>>)
           => ~ ViolatesPublicShare(broadcast_vec)
    /\ \A i \in Collected :
           new_keys[i].tag = "PublicShareValidationError"
               <=> ViolatesPublicShare(broadcast_vec)

\* a step taken while the stage runs changes one worker's own items and
\* verdict and may raise the flag; it leaves the other workers, the messages,
\* the keys and the results of collect alone
WorkerStepLocal ==
    (par_iter # Idle /\ par_iter' # Idle) =>
        /\ UNCHANGED <<old_keys, broadcast_vec, new_keys, pc, epoch, rng, tampers>>
        /\ DOMAIN par_iter'.workers = DOMAIN par_iter.workers
        /\ \E w \in DOMAIN par_iter.workers :
               \A v \in DOMAIN par_iter.workers \ {w} :
                   par_iter'.workers[v] = par_iter.workers[v]
        /\ par_iter.full => par_iter'.full

\* C17: the parallel public-share stage reports failure if and only if at
\* least one (message, index) pair fails validate_share_public, under every
\* split of the pairs among the workers, every interleaving of the workers
\* and every point at which a worker gives up after the short-circuit; and a
\* worker writes nothing but its own progress and the short-circuit flag.
C17_ParallelVerdict == [] VerdictRight /\ [][WorkerStepLocal]_vars

\* the short-circuit at work: the last of several workers has found an
\* invalid pair while the first still has pairs to validate
C17_Witness ==
    /\ Len(par_iter.workers) >= 2
    /\ par_iter.workers[Len(par_iter.workers)].found
    /\ par_iter.full
    /\ Len(par_iter.workers[1].items) >= 2
    /\ ~ par_iter.workers[1].found

====
